---- MODULE Spec2Model ----
(***************************************************************************)
(* Model of the validation engine of composables/useExcelValidation.ts:    *)
(* the two reactive cells (validationProgress, isValidationCancelled),     *)
(* cancelValidation, and validateData as a sequence of synchronous         *)
(* segments separated by the `await` of updateProgress.                    *)
(*                                                                         *)
(* Strings are sequences of one-character strings, so that trim, join and  *)
(* String(number) are computed and not assumed.                            *)
(***************************************************************************)
EXTENDS Integers, Sequences, FiniteSets, TLC

VARIABLES
    validationProgress,     \* ref(0), line 85
    isValidationCancelled,  \* ref(false), line 90
    pc,                     \* position of the validateData call
    data,                   \* argument `data` of validateData
    validationSchema,       \* argument `validationSchema` (entries in insertion order)
    unique,                 \* argument `unique`
    errors,                 \* local `errors`
    processedData,          \* local `processedData`
    completedSteps,         \* local `completedSteps`
    uniqueValues,           \* local `uniqueValues` (object: entries in insertion order)
    rowIndex,               \* loop variable of the row loop
    groupIndex,             \* position in Object.entries(uniqueValues)
    thrown,                 \* `errors` carried by the raised ValidationCancellationError
    cancelledAtEntry,       \* history: isValidationCancelled as the current call found it
    previousResult,         \* history: what the previous call returned, if it returned
    fileData,               \* what the decoder yields for the argument of validateExcelFile
    fileResult,             \* outcome of the validateExcelFile call
    headerCall,             \* last direct call of validateHeader and its result
    otherProgress,          \* validationProgress of a second useExcelValidation() handle
    otherCancelled,         \* isValidationCancelled of a second useExcelValidation() handle
    second                  \* pc, locals and raised errors of a second call in flight

vars == <<validationProgress, isValidationCancelled, pc, data, validationSchema,
          unique, errors, processedData, completedSteps, uniqueValues, rowIndex,
          groupIndex, thrown, cancelledAtEntry, previousResult, fileData, fileResult,
          headerCall, otherProgress, otherCancelled, second>>

runLocals == <<errors, processedData, completedSteps, uniqueValues, rowIndex, groupIndex>>

args == <<data, validationSchema, unique>>

fileVars == <<fileData, fileResult, headerCall>>

otherCells == <<otherProgress, otherCancelled>>

----------------------------------------------------------------------------
(* Bounds *)

MaxRows == 3

ROW_NUMBER_OFFSET == 2

----------------------------------------------------------------------------
(* JavaScript values *)

Str(s) == [kind |-> "string", s |-> s, n |-> 0]

Num(n) == [kind |-> "number", s |-> <<>>, n |-> n]

Bool(b) == [kind |-> "boolean", s |-> <<>>, n |-> IF b THEN 1 ELSE 0]

Null == [kind |-> "null", s |-> <<>>, n |-> 0]

Undefined == [kind |-> "undefined", s |-> <<>>, n |-> 0]

\* typeof v
TypeOf(v) == IF v.kind = "null" THEN "object" ELSE v.kind

\* v != null / v == null (loose): null and undefined
IsNullish(v) == v.kind \in {"null", "undefined"}

\* row[column]: undefined when the row has no such key
Get(row, column) == IF column \in DOMAIN row THEN row[column] ELSE Undefined

IsSpace(c) == c = " "

RECURSIVE TrimStart(_)
TrimStart(s) == IF s # <<>> /\ IsSpace(Head(s)) THEN TrimStart(Tail(s)) ELSE s

RECURSIVE TrimEnd(_)
TrimEnd(s) ==
    IF s # <<>> /\ IsSpace(s[Len(s)]) THEN TrimEnd(SubSeq(s, 1, Len(s) - 1)) ELSE s

\* String.prototype.trim
Trim(s) == TrimEnd(TrimStart(s))

\* String.prototype.replace(/\s+/g, "")
RECURSIVE RemoveSpaces(_)
RemoveSpaces(s) ==
    IF s = <<>> THEN <<>>
    ELSE IF IsSpace(Head(s)) THEN RemoveSpaces(Tail(s))
    ELSE <<Head(s)>> \o RemoveSpaces(Tail(s))

DigitChars == <<"0", "1", "2", "3", "4", "5", "6", "7", "8", "9">>

IsDigit(c) == \E i \in 1..10 : DigitChars[i] = c

DigitVal(c) == (CHOOSE i \in 1..10 : DigitChars[i] = c) - 1

AllDigits(s) == \A i \in 1..Len(s) : IsDigit(s[i])

\* String(n) for a non-negative integer
RECURSIVE NumToString(_)
NumToString(n) ==
    IF n < 10 THEN <<DigitChars[n + 1]>>
    ELSE NumToString(n \div 10) \o <<DigitChars[(n % 10) + 1]>>

\* String(v), as Array.prototype.join and String() apply it
ToStr(v) ==
    CASE v.kind = "string" -> v.s
      [] v.kind = "number" -> NumToString(v.n)
      [] v.kind = "boolean" -> IF v.n = 1 THEN <<"t", "r", "u", "e">>
                                             ELSE <<"f", "a", "l", "s", "e">>
      [] v.kind = "null" -> <<"n", "u", "l", "l">>
      [] OTHER -> <<"u", "n", "d", "e", "f", "i", "n", "e", "d">>

\* Array.prototype.join on an array of strings
RECURSIVE Join(_, _)
Join(parts, sep) ==
    IF parts = <<>> THEN <<>>
    ELSE IF Len(parts) = 1 THEN parts[1]
    ELSE parts[1] \o sep \o Join(Tail(parts), sep)

Dash == <<"-">>

NULLSentinel == <<"N", "U", "L", "L">>

----------------------------------------------------------------------------
(* Object.entries: integer-like keys first in ascending order, then the    *)
(* other keys in insertion order.  An object is a sequence of entries      *)
(* [key, val] in insertion order, with distinct keys.                      *)

IsArrayIndex(k) == /\ k # <<>>
                   /\ AllDigits(k)
                   /\ (Len(k) = 1 \/ k[1] # "0")

RECURSIVE StringToNum(_)
StringToNum(k) ==
    IF k = <<>> THEN 0 ELSE 10 * StringToNum(SubSeq(k, 1, Len(k) - 1)) + DigitVal(k[Len(k)])

RECURSIVE SelectEntries(_, _)
SelectEntries(obj, wantIndex) ==
    IF obj = <<>> THEN <<>>
    ELSE IF IsArrayIndex(Head(obj).key) = wantIndex
         THEN <<Head(obj)>> \o SelectEntries(Tail(obj), wantIndex)
         ELSE SelectEntries(Tail(obj), wantIndex)

RECURSIVE SortByIndex(_)
SortByIndex(es) ==
    IF es = <<>> THEN <<>>
    ELSE LET m == CHOOSE i \in 1..Len(es) :
                      \A j \in 1..Len(es) : StringToNum(es[i].key) <= StringToNum(es[j].key)
         IN  <<es[m]>> \o SortByIndex(SubSeq(es, 1, m - 1) \o SubSeq(es, m + 1, Len(es)))

ObjectEntries(obj) == SortByIndex(SelectEntries(obj, TRUE)) \o SelectEntries(obj, FALSE)

HasKey(obj, k) == \E i \in 1..Len(obj) : obj[i].key = k

\* obj[k] = v : replaces the value of an existing key in place, appends a new key
RECURSIVE SetKey(_, _, _)
SetKey(obj, k, v) ==
    IF obj = <<>> THEN <<[key |-> k, val |-> v]>>
    ELSE IF Head(obj).key = k THEN <<[key |-> k, val |-> v]>> \o Tail(obj)
    ELSE <<Head(obj)>> \o SetKey(Tail(obj), k, v)

GetKey(obj, k) == obj[CHOOSE i \in 1..Len(obj) : obj[i].key = k].val

----------------------------------------------------------------------------
(* Errors *)

Msg(text, a, b, key, rows, list) ==
    [text |-> text, a |-> a, b |-> b, key |-> key, rows |-> rows, list |-> list]

CellError(rowNumber, column, message, errorType) ==
    [row |-> rowNumber, column |-> column, message |-> message, errorType |-> errorType]

----------------------------------------------------------------------------
(* Built-in validators, lines 93-99 *)

NotSpaceOrAt(c) == ~IsSpace(c) /\ c # "@"

\* /^[^\s@]+@[^\s@]+\.[^\s@]+$/
isEmail(s) ==
    \E i \in 1..Len(s) : \E j \in 1..Len(s) :
        /\ 1 < i /\ i + 1 < j /\ j < Len(s)
        /\ s[i] = "@"
        /\ s[j] = "."
        /\ \A k \in 1..Len(s) : k # i => NotSpaceOrAt(s[k])

\* /^\d{7,9}$/ on String(value)
isEmployeeNumber(v) ==
    LET s == ToStr(v) IN AllDigits(s) /\ Len(s) >= 7 /\ Len(s) <= 9

\* /^(?:\+91|0)?\s*\d{10}$/ on String(value) with all whitespace removed
isMobileNumber(v) ==
    LET t == RemoveSpaces(ToStr(v)) IN
        \/ Len(t) = 10 /\ AllDigits(t)
        \/ Len(t) = 11 /\ t[1] = "0" /\ AllDigits(t)
        \/ Len(t) = 13 /\ SubSeq(t, 1, 3) = <<"+", "9", "1">> /\ AllDigits(SubSeq(t, 4, 13))

----------------------------------------------------------------------------
(* Column names of the inputs *)

ColA == <<"a">>

ColB == <<"b">>

ColAB == <<"a", "-", "b">>

Col7 == <<"7">>

ColX == <<"x">>

----------------------------------------------------------------------------
(* Schema rules.  type "none" is an undeclared type; customValidator names *)
(* one of the caller's functions.                                          *)

Rule(type, required, validators, hasAccepted, acceptedValues, customValidator) ==
    [type |-> type, required |-> required, validators |-> validators,
     hasAccepted |-> hasAccepted, acceptedValues |-> acceptedValues,
     customValidator |-> customValidator]

\* A caller's customValidator: true, or an error fragment that names its own
\* row and column.
CustomFragment ==
    [row |-> 99, column |-> <<"z">>,
     message |-> Msg("custom", "", "", <<>>, <<>>, <<>>), errorType |-> "CUSTOM_VALIDATION"]

\* A caller's customValidator (value, rowData?) => true | error.  rowData is
\* the second argument as the engine passes it: [given, row].
CustomValid(name, value, rowData) ==
    CASE name = "acceptAll" -> TRUE
      [] name = "rejectAll" -> FALSE
      [] name = "rejectStrings" -> value.kind # "string"
      [] name = "needsB" -> rowData.given /\ ~IsNullish(Get(rowData.row, ColB))
      [] OTHER -> TRUE

\* line 290: rules.customValidator(value) passes no second argument
PassedRow(row) == [given |-> FALSE, row |-> <<>>]

\* Array.prototype.includes
Includes(list, v) == \E i \in 1..Len(list) : list[i] = v

----------------------------------------------------------------------------
(* One column of one row, lines 213-300 *)

\* variant: a string that is empty once trimmed is stored as null
CellValue_EmptyToNull(row, column) ==
    LET rawValue == Get(row, column) IN
        IF TypeOf(rawValue) = "string"
        THEN (IF Trim(rawValue.s) = <<>> THEN Null ELSE Str(Trim(rawValue.s)))
        ELSE rawValue

\* line 217
CellValue(row, column) ==
    LET rawValue == Get(row, column) IN
        IF TypeOf(rawValue) = "string" THEN Str(Trim(rawValue.s)) ELSE rawValue

\* variant: the empty string is not taken as missing
RequiredFails_NullOnly(rules, value) == rules.required /\ IsNullish(value)

\* line 226
RequiredFails(rules, value) ==
    rules.required /\ (value = Null \/ value = Str(<<>>) \/ value = Undefined)

\* variant: the type check has no value != null guard
TypeFails_NullToo(rules, value) ==
    rules.type # "none" /\ TypeOf(value) # rules.type

\* lines 237-241
TypeFails(rules, value) ==
    rules.type # "none" /\ ~IsNullish(value) /\ TypeOf(value) # rules.type

\* lines 254-274
ValidatorErrors(rules, value, rowNumber, column) ==
    IF IsNullish(value) THEN <<>>
    ELSE (IF "isEmail" \in rules.validators /\ TypeOf(value) = "string" /\ ~isEmail(value.s)
          THEN <<CellError(rowNumber, column,
                           Msg("Invalid email address", "", "", <<>>, <<>>, <<>>), "EMAIL_RULE")>>
          ELSE <<>>)
      \o (IF "isMobileNumber" \in rules.validators
             /\ TypeOf(value) \in {"string", "number"} /\ ~isMobileNumber(value)
          THEN <<CellError(rowNumber, column,
                           Msg("Invalid mobile number", "", "", <<>>, <<>>, <<>>), "MOBILE_RULE")>>
          ELSE <<>>)
      \o (IF "isEmployeeNumber" \in rules.validators
             /\ TypeOf(value) \in {"string", "number"} /\ ~isEmployeeNumber(value)
          THEN <<CellError(rowNumber, column,
                           Msg("Invalid employee number", "", "", <<>>, <<>>, <<>>), "EMPLOYEE_RULE")>>
          ELSE <<>>)

\* lines 279-283
AcceptedErrors(rules, value, rowNumber, column) ==
    IF rules.hasAccepted /\ ~IsNullish(value) /\ ~Includes(rules.acceptedValues, value)
    THEN <<CellError(rowNumber, column,
                     Msg("Value must be one of", "", "", <<>>, <<>>, rules.acceptedValues),
                     "ACCEPTED_VALUES")>>
    ELSE <<>>

\* variant: the fragment is spread last and overrides row and column
CustomErrors_FragmentWins(row, rules, value, rowNumber, column) ==
    IF rules.customValidator # "none" /\ ~IsNullish(value)
       /\ ~CustomValid(rules.customValidator, value, PassedRow(row))
    THEN <<CustomFragment>>
    ELSE <<>>

\* lines 288-298
CustomErrors(row, rules, value, rowNumber, column) ==
    IF rules.customValidator # "none" /\ ~IsNullish(value)
       /\ ~CustomValid(rules.customValidator, value, PassedRow(row))
    THEN <<[CustomFragment EXCEPT !.row = rowNumber, !.column = column]>>
    ELSE <<>>

\* variant: the column is left after its first error, whichever check found it
CellErrors_FirstOnly(row, rowIdx, column, rules) ==
    LET value == CellValue(row, column)
        rowNumber == rowIdx + ROW_NUMBER_OFFSET
        later == ValidatorErrors(rules, value, rowNumber, column)
                 \o AcceptedErrors(rules, value, rowNumber, column)
                 \o CustomErrors(row, rules, value, rowNumber, column)
    IN  IF RequiredFails(rules, value)
        THEN <<CellError(rowNumber, column,
                         Msg("This field is required", "", "", <<>>, <<>>, <<>>), "REQUIRED")>>
        ELSE IF TypeFails(rules, value)
        THEN <<CellError(rowNumber, column,
                         Msg("Expected type", rules.type, TypeOf(value), <<>>, <<>>, <<>>),
                         "TYPE_MISMATCH")>>
        ELSE IF later = <<>> THEN <<>> ELSE <<Head(later)>>

\* the errors pushed for one column of one row
CellErrors(row, rowIdx, column, rules) ==
    LET value == CellValue(row, column)
        rowNumber == rowIdx + ROW_NUMBER_OFFSET
    IN  IF RequiredFails(rules, value)
        THEN <<CellError(rowNumber, column,
                         Msg("This field is required", "", "", <<>>, <<>>, <<>>), "REQUIRED")>>
        ELSE IF TypeFails(rules, value)
        THEN <<CellError(rowNumber, column,
                         Msg("Expected type", rules.type, TypeOf(value), <<>>, <<>>, <<>>),
                         "TYPE_MISMATCH")>>
        ELSE ValidatorErrors(rules, value, rowNumber, column)
             \o AcceptedErrors(rules, value, rowNumber, column)
             \o CustomErrors(row, rules, value, rowNumber, column)

\* the errors pushed by one iteration of the row loop, in schema entry order
RECURSIVE RowErrors(_, _, _)
RowErrors(row, rowIdx, entries) ==
    IF entries = <<>> THEN <<>>
    ELSE CellErrors(row, rowIdx, Head(entries).key, Head(entries).val)
         \o RowErrors(row, rowIdx, Tail(entries))

\* variant: the processed row starts as a copy of the raw row
ProcessedRow_Spread(row, entries) ==
    [column \in (DOMAIN row) \cap {entries[i].key : i \in 1..Len(entries)}
        |-> CellValue(row, column)]
    @@ row

\* processedRow after the column loop, lines 210-220
ProcessedRow(row, entries) ==
    [column \in {entries[i].key : i \in 1..Len(entries)} |-> CellValue(row, column)]

----------------------------------------------------------------------------
(* Uniqueness tracking.  uniqueValues is an object keyed by the group key; *)
(* each value is a Map, kept as entries [key, val] in insertion order.     *)

\* cols.join("-").trim(), lines 189 and 308
GroupKey(cols) == Trim(Join(cols, Dash))

\* lines 187-193
RECURSIVE InitUniqueValues(_, _)
InitUniqueValues(obj, groups) ==
    IF groups = <<>> THEN obj
    ELSE InitUniqueValues(SetKey(obj, GroupKey(Head(groups)), <<>>), Tail(groups))

\* lines 310-315: one element of the mapped array, before join stringifies it
NormalizedValue(row, col) ==
    LET val == Get(row, col) IN
        IF TypeOf(val) = "string" THEN Str(Trim(val.s))
        ELSE IF IsNullish(val) THEN Str(NULLSentinel)
        ELSE val

\* lines 310-315: the mapped array of a row for the columns of a group
NormalizedTuple(row, cols) == [i \in 1..Len(cols) |-> NormalizedValue(row, cols[i])]

\* variant: a string enters the key as it is written
KeyPart_Untrimmed(row, col) ==
    LET val == Get(row, col) IN
        IF TypeOf(val) = "string" THEN val.s
        ELSE IF IsNullish(val) THEN NULLSentinel
        ELSE ToStr(val)

\* lines 310-316: one element of the mapped array, as join stringifies it
KeyPart(row, col) ==
    LET val == Get(row, col) IN
        IF TypeOf(val) = "string" THEN Trim(val.s)
        ELSE IF IsNullish(val) THEN NULLSentinel
        ELSE ToStr(val)

RECURSIVE KeyParts(_, _)
KeyParts(row, cols) ==
    IF cols = <<>> THEN <<>> ELSE <<KeyPart(row, Head(cols))>> \o KeyParts(row, Tail(cols))

CompositeKey(row, cols) == Join(KeyParts(row, cols), Dash)

\* lines 320-334
TrackGroup(obj, row, rowIdx, cols) ==
    LET key == GroupKey(cols)
        values == CompositeKey(row, cols)
        rowNumber == rowIdx + ROW_NUMBER_OFFSET
        valueMap == GetKey(obj, key)
    IN  IF HasKey(valueMap, values)
        THEN SetKey(obj, key, SetKey(valueMap, values, Append(GetKey(valueMap, values), rowNumber)))
        ELSE SetKey(obj, key, SetKey(valueMap, values, <<rowNumber>>))

\* variant: the row is left after its first group was updated
TrackRow_FirstGroupOnly(obj, row, rowIdx, groups) ==
    IF groups = <<>> THEN obj
    ELSE TrackGroup(obj, row, rowIdx, Head(groups))

\* lines 306-336
RECURSIVE TrackRow(_, _, _, _)
TrackRow(obj, row, rowIdx, groups) ==
    IF groups = <<>> THEN obj
    ELSE TrackRow(TrackGroup(obj, row, rowIdx, Head(groups)), row, rowIdx, Tail(groups))

\* lines 357-362
RECURSIVE DuplicateList(_, _, _, _)
DuplicateList(key, value, rows, rest) ==
    IF rest = <<>> THEN <<>>
    ELSE <<CellError(Head(rest), key,
                     Msg("Duplicate value found", "", "", value, rows, <<>>), "DUPLICATE")>>
         \o DuplicateList(key, value, rows, Tail(rest))

\* lines 353-368: valueMap.forEach
RECURSIVE DuplicateErrors(_, _)
DuplicateErrors(key, valueMap) ==
    IF valueMap = <<>> THEN <<>>
    ELSE (IF Len(Head(valueMap).val) > 1
          THEN DuplicateList(key, Head(valueMap).key, Head(valueMap).val, Head(valueMap).val)
          ELSE <<>>)
         \o DuplicateErrors(key, Tail(valueMap))

----------------------------------------------------------------------------
(* Progress, lines 167-181 *)

totalSteps(d, u) == Len(d) + Len(u)

\* Math.round((completed / total) * 100), for total > 0
getProgress(completed, total) == (200 * completed + total) \div (2 * total)

\* variant: the step is counted twice
NextCompleted_Twice(completed) == completed + 2

\* completedSteps++
NextCompleted(completed) == completed + 1

----------------------------------------------------------------------------
(* validateData, lines 153-378.  One action is one synchronous segment:    *)
(* from the call, or from the resumption after an await, up to the next    *)
(* await, the return or the throw.                                         *)

\* variant: the flag is not cleared at entry
EntryCancelled_Kept(previous) == previous

\* line 157
EntryCancelled(previous) == FALSE

\* line 159
EntryProgress(previous) == 0

\* variant: the row loop has no cancellation check
RowLoopCancelled_Never(flag) == FALSE

\* variant: the condition of the row loop's check is negated
RowLoopCancelled_Inverted(flag) == ~flag

\* line 202
RowLoopCancelled(flag) == flag

\* variant: the condition of the group loop's check is negated
GroupLoopCancelled_Inverted(flag) == ~flag

\* variant: the group loop has no cancellation check
GroupLoopCancelled_Never(flag) == FALSE

\* line 346
GroupLoopCancelled(flag) == flag

\* variant: the raised error carries no error list
CarriedErrors_Dropped(errs) == <<>>

\* lines 204 and 348
CarriedErrors(errs) == errs

\* variant: a DUPLICATE error is pushed as soon as a row repeats the key of an
\* earlier row in some group
RowStepErrors_Eager(errs, row, rowIdx, entries) ==
    errs \o RowErrors(row, rowIdx, entries)
         \o (IF \E g \in 1..Len(unique) : \E j \in 1..rowIdx :
                    CompositeKey(data[j], unique[g]) = CompositeKey(row, unique[g])
             THEN <<CellError(rowIdx + ROW_NUMBER_OFFSET, <<>>,
                              Msg("Duplicate value found", "", "", <<>>, <<>>, <<>>),
                              "DUPLICATE")>>
             ELSE <<>>)

\* variant: the trimmed value is written back into the caller's row
RowAfterIteration_TrimInPlace(row, entries) ==
    [column \in DOMAIN row |->
        IF \E i \in 1..Len(entries) : entries[i].key = column
        THEN CellValue(row, column) ELSE row[column]]

\* the caller's row object after one iteration of the row loop: lines 208-336
\* only read it
RowAfterIteration(row, entries) == row

\* the error list after one iteration of the row loop
RowStepErrors(errs, row, rowIdx, entries) == errs \o RowErrors(row, rowIdx, entries)

\* variant: a loop is left as soon as an error has been recorded
LoopRuns_UntilError(index, length, errs) == index < length /\ errs = <<>>

\* lines 199 and 343: the for loops run until their collection is exhausted,
\* whatever the error list holds
LoopRuns(index, length, errs) == index < length

\* variant: the progress of the completed steps is written back before the
\* signal is raised
Throw_WritesProgress(errs, prog) ==
    /\ pc' = "cancelled"
    /\ thrown' = CarriedErrors(errs)
    /\ validationProgress' = getProgress(completedSteps, totalSteps(data, unique))

Throw(errs, prog) ==
    /\ pc' = "cancelled"
    /\ thrown' = CarriedErrors(errs)
    /\ validationProgress' = prog

\* the segment that starts at the head of the row loop or of the group loop
Continue(d, flag, prog, errs, procd, done, uv, ri, gi) ==
    IF LoopRuns(ri, Len(d), errs)
    THEN IF RowLoopCancelled(flag)
         THEN /\ Throw(errs, prog)
              /\ errors' = errs /\ processedData' = procd /\ completedSteps' = done
              /\ uniqueValues' = uv /\ rowIndex' = ri /\ groupIndex' = gi
              /\ data' = d
         ELSE /\ errors' = RowStepErrors(errs, d[ri + 1], ri, ObjectEntries(validationSchema))
              /\ processedData' = Append(procd, ProcessedRow(d[ri + 1], ObjectEntries(validationSchema)))
              /\ uniqueValues' = TrackRow(uv, d[ri + 1], ri, unique)
              /\ completedSteps' = NextCompleted(done)
              /\ validationProgress' = getProgress(NextCompleted(done), totalSteps(d, unique))
              /\ rowIndex' = ri + 1
              /\ groupIndex' = gi
              /\ data' = [d EXCEPT ![ri + 1] =
                              RowAfterIteration(d[ri + 1], ObjectEntries(validationSchema))]
              /\ pc' = "await"
              /\ thrown' = <<>>
    ELSE IF LoopRuns(gi, Len(ObjectEntries(uv)), errs)
    THEN IF GroupLoopCancelled(flag)
         THEN /\ Throw(errs, prog)
              /\ errors' = errs /\ processedData' = procd /\ completedSteps' = done
              /\ uniqueValues' = uv /\ rowIndex' = ri /\ groupIndex' = gi
              /\ data' = d
         ELSE /\ errors' = errs \o DuplicateErrors(ObjectEntries(uv)[gi + 1].key,
                                                   ObjectEntries(uv)[gi + 1].val)
              /\ completedSteps' = NextCompleted(done)
              /\ validationProgress' = getProgress(NextCompleted(done), totalSteps(d, unique))
              /\ groupIndex' = gi + 1
              /\ pc' = "await"
              /\ thrown' = <<>>
              /\ processedData' = procd /\ uniqueValues' = uv /\ rowIndex' = ri
              /\ data' = d
    ELSE /\ pc' = "returned"
         /\ thrown' = <<>>
         /\ validationProgress' = prog
         /\ errors' = errs /\ processedData' = procd /\ completedSteps' = done
         /\ uniqueValues' = uv /\ rowIndex' = ri /\ groupIndex' = gi
         /\ data' = d

\* variant: the error list outlives the call
EntryErrors_Kept(previous) == previous

\* line 161
EntryErrors(previous) == <<>>

\* the call of validateData: lines 156-196, then the first segment
ValidateDataCall(d) ==
    /\ isValidationCancelled' = EntryCancelled(isValidationCancelled)
    /\ Continue(d, EntryCancelled(isValidationCancelled), EntryProgress(validationProgress),
                EntryErrors(errors), <<>>, 0, InitUniqueValues(<<>>, unique), 0, 0)
    /\ cancelledAtEntry' = isValidationCancelled
    /\ UNCHANGED <<validationSchema, unique>>

\* validateData called by the application
Entry ==
    /\ pc \in {"idle", "returned", "cancelled"}
    /\ ValidateDataCall(data)
    /\ UNCHANGED <<previousResult, fileVars, otherCells, second>>

\* the timer of line 177 fires and the call resumes
Resume ==
    /\ pc = "await"
    /\ Continue(data, isValidationCancelled, validationProgress,
                errors, processedData, completedSteps, uniqueValues, rowIndex, groupIndex)
    /\ UNCHANGED <<isValidationCancelled, validationSchema, unique, cancelledAtEntry>>
    /\ UNCHANGED <<previousResult, fileVars, otherCells, second>>

\* variant: the progress is not reset
cancelValidation_KeepsProgress ==
    /\ isValidationCancelled' = TRUE
    /\ UNCHANGED <<validationProgress, pc, args, runLocals, thrown, cancelledAtEntry>>
    /\ UNCHANGED <<previousResult, fileVars, otherCells, second>>

\* lines 110-115
cancelValidation ==
    /\ isValidationCancelled' = TRUE
    /\ validationProgress' = 0
    /\ UNCHANGED <<pc, args, runLocals, thrown, cancelledAtEntry>>
    /\ UNCHANGED <<previousResult, fileVars, otherCells, second>>

----------------------------------------------------------------------------
(* validateHeader, lines 117-150 *)

\* Object.keys(excelSchema)
RECURSIVE ObjectKeys(_)
ObjectKeys(entries) ==
    IF entries = <<>> THEN <<>> ELSE <<Head(entries).key>> \o ObjectKeys(Tail(entries))

\* variant: the header values are compared untrimmed
HeaderValues_Untrimmed(excelHeader) == excelHeader

\* line 121: excelHeader.map(header => header.trim())
RECURSIVE HeaderValues(_)
HeaderValues(excelHeader) ==
    IF excelHeader = <<>> THEN <<>>
    ELSE <<Trim(Head(excelHeader))>> \o HeaderValues(Tail(excelHeader))

\* lines 124 and 139: list.filter(h => !others.includes(h))
RECURSIVE NotIncluded(_, _)
NotIncluded(list, others) ==
    IF list = <<>> THEN <<>>
    ELSE (IF Includes(others, Head(list)) THEN <<>> ELSE <<Head(list)>>)
         \o NotIncluded(Tail(list), others)

\* lines 117-150; the console output is not modelled
validateHeader(excelSchema, excelHeader) ==
    LET expectedHeaders == ObjectKeys(ObjectEntries(excelSchema))
        excelHeaders == HeaderValues(excelHeader)
        missingHeaders == NotIncluded(expectedHeaders, excelHeaders)
    IN  ~(Len(missingHeaders) > 0)

----------------------------------------------------------------------------
(* Inputs *)

NoRule == Rule("none", FALSE, {}, FALSE, <<>>, "none")

RowSet ==
    { (ColA :> Str(<<" ", "x", " ">>)) @@ (ColB :> Num(1)),
      (ColA :> Str(<<"y">>)) @@ (ColB :> Num(2)) @@ (ColX :> Str(<<"e">>)),
      (ColA :> Str(<<" ">>)) @@ (ColB :> Null),
      (ColA :> Num(5)),
      (ColA :> Str(<<"x">>)) @@ (ColB :> Num(1)) @@ (ColAB :> Str(<<"x", "-", "1">>)) }

SchemaSet ==
    { << [key |-> ColA, val |-> Rule("string", TRUE, {}, FALSE, <<>>, "none")],
         [key |-> ColB, val |-> Rule("number", FALSE, {}, FALSE, <<>>, "none")] >>,
      << [key |-> ColA, val |-> Rule("string", TRUE, {"isEmail", "isEmployeeNumber"},
                                     TRUE, <<Str(<<"y">>)>>, "rejectAll")],
         [key |-> ColB, val |-> Rule("number", TRUE, {"isMobileNumber"},
                                     TRUE, <<Num(1)>>, "acceptAll")] >>,
      << [key |-> ColB, val |-> NoRule] >> }

UniqueSet ==
    { <<>>,
      << <<ColA>> >>,
      << <<ColA, ColB>> >>,
      << <<ColA>>, <<ColB>> >>,
      << <<ColA>>, <<ColA>> >>,
      << <<ColA, ColB>>, <<ColAB>> >>,
      << <<ColA>>, <<Col7>> >> }

\* cells of column a and of column b for the per-column properties
ColumnValuesA ==
    { Str(<<"x", "@", "y", ".", "z">>), Str(<<" ", "b", "a", "d">>), Str(<<" ">>), Str(<<>>),
      Str(<<"1", "2", "3", "4", "5", "6", "7">>),
      Str(<<"0", "9", "8", "7", " ", "6", "5", "4", " ", "3", "2", "1", "0">>),
      Num(5), Num(1234567), Bool(TRUE), Null, Undefined }

ColumnValuesB == {Num(1), Null}

ColumnRowSet ==
    {(ColA :> a) @@ (ColB :> b) : a \in ColumnValuesA \ {Undefined}, b \in ColumnValuesB}
    \cup {(ColB :> b) : b \in ColumnValuesB}

ColumnRuleSet ==
    { Rule(t, r, v, acc, <<Str(<<"x", "@", "y", ".", "z">>), Num(5)>>, c) :
        t \in {"none", "string", "number"}, r \in BOOLEAN,
        v \in {{}, {"isEmail"}, {"isEmail", "isMobileNumber", "isEmployeeNumber"}},
        acc \in BOOLEAN, c \in {"none", "rejectAll", "needsB"} }

RECURSIVE SeqsUpTo(_, _)
SeqsUpTo(S, n) ==
    IF n = 0 THEN {<<>>}
    ELSE LET shorter == SeqsUpTo(S, n - 1)
         IN  shorter \cup {Append(q, x) : q \in {t \in shorter : Len(t) = n - 1}, x \in S}

DataSet == SeqsUpTo(RowSet, MaxRows)

----------------------------------------------------------------------------
(* Specification *)

NoResult == [returned |-> FALSE, errors |-> <<>>, processedData |-> <<>>]

NoFile == [readable |-> FALSE, rows |-> <<>>, header |-> <<>>]

NoHeaderCall == [called |-> FALSE, header |-> <<>>, result |-> FALSE]

\* no second call has been made
NoSecond ==
    [pc |-> "idle", errors |-> <<>>, processedData |-> <<>>, completedSteps |-> 0,
     uniqueValues |-> <<>>, rowIndex |-> 0, groupIndex |-> 0, thrown |-> <<>>]

\* the state after useExcelValidation(), lines 85-90, before any call
InitCells ==
    /\ validationProgress = 0
    /\ isValidationCancelled = FALSE
    /\ otherProgress = 0
    /\ otherCancelled = FALSE
    /\ pc = "idle"
    /\ errors = <<>>
    /\ processedData = <<>>
    /\ completedSteps = 0
    /\ uniqueValues = <<>>
    /\ rowIndex = 0
    /\ groupIndex = 0
    /\ thrown = <<>>
    /\ cancelledAtEntry = FALSE
    /\ previousResult = NoResult
    /\ second = NoSecond
    /\ fileResult = "none"
    /\ headerCall = NoHeaderCall

Init ==
    /\ InitCells
    /\ data \in DataSet
    /\ validationSchema \in SchemaSet
    /\ unique \in UniqueSet
    /\ fileData = NoFile

\* one row, every kind of cell against every rule of column a
InitColumns ==
    /\ InitCells
    /\ data \in {<<row>> : row \in ColumnRowSet}
    /\ validationSchema \in
          {<<[key |-> ColA, val |-> rule], [key |-> ColB, val |-> NoRule]>> : rule \in ColumnRuleSet}
    /\ unique = <<>>
    /\ fileData = NoFile

Next == Entry \/ Resume \/ cancelValidation

\* rows that repeat each other's keys, under a schema that rejects cells
FairRowSet ==
    { (ColA :> Str(<<" ", "x", " ">>)) @@ (ColB :> Num(1)),
      (ColA :> Str(<<"x">>)) @@ (ColB :> Num(1)) @@ (ColAB :> Str(<<"x", "-", "1">>)) }

InitFair ==
    /\ InitCells
    /\ data \in SeqsUpTo(FairRowSet, MaxRows)
    /\ validationSchema \in
          { << [key |-> ColA, val |-> Rule("string", TRUE, {"isEmail", "isEmployeeNumber"},
                                          TRUE, <<Str(<<"y">>)>>, "rejectAll")],
               [key |-> ColB, val |-> Rule("number", TRUE, {"isMobileNumber"},
                                          TRUE, <<Num(1)>>, "acceptAll")] >> }
    /\ unique \in { <<>>, << <<ColA>>, <<ColB>> >>, << <<ColA, ColB>>, <<ColAB>> >> }
    /\ fileData = NoFile

\* the timer of line 177 always fires: a suspended call is always resumed
SpecFair == InitFair /\ [][Next]_vars /\ WF_vars(Resume)

----------------------------------------------------------------------------
(* Two calls of validateData in a row on the same input, no constraint group *)

\* validateData called again once the previous call has settled
EntryAgain ==
    /\ pc \in {"returned", "cancelled"}
    /\ previousResult' = IF pc = "returned"
                         THEN [returned |-> TRUE, errors |-> errors,
                               processedData |-> processedData]
                         ELSE previousResult
    /\ ValidateDataCall(data)
    /\ UNCHANGED <<fileVars, otherCells, second>>

EntryFirst == pc = "idle" /\ Entry

InitTwice ==
    /\ InitCells
    /\ data \in DataSet
    /\ validationSchema \in SchemaSet
    /\ unique = <<>>
    /\ fileData = NoFile

NextTwice == EntryFirst \/ EntryAgain \/ Resume \/ cancelValidation

SpecTwice == InitTwice /\ [][NextTwice]_vars

----------------------------------------------------------------------------
(* Schemas whose columns include an integer-like name *)

OrderRowSet ==
    { (ColA :> Str(<<"x">>)),
      (ColA :> Num(5)) @@ (Col7 :> Num(1)),
      (Col7 :> Str(<<"q">>)) }

OrderSchemaSet ==
    { << [key |-> ColA, val |-> Rule("string", TRUE, {}, FALSE, <<>>, "none")],
         [key |-> Col7, val |-> Rule("number", TRUE, {}, FALSE, <<>>, "none")] >>,
      << [key |-> ColB, val |-> Rule("number", TRUE, {}, FALSE, <<>>, "none")],
         [key |-> ColA, val |-> Rule("string", TRUE, {"isEmail"}, FALSE, <<>>, "rejectAll")] >> }

InitOrder ==
    /\ InitCells
    /\ data \in SeqsUpTo(OrderRowSet, MaxRows)
    /\ validationSchema \in OrderSchemaSet
    /\ unique \in {<<>>, << <<ColA>> >>}
    /\ fileData = NoFile

SpecOrder == InitOrder /\ [][Next]_vars

----------------------------------------------------------------------------
(* Two handles: useExcelValidation() called twice.  The run goes through   *)
(* this handle; otherProgress and otherCancelled are the refs of the other *)
(* handle.                                                                 *)

\* variant: both handles close over one flag
CancelledAfterOtherCancel_Shared(flag) == TRUE

\* lines 85-90: each call of useExcelValidation creates its own refs, so the
\* write of line 112 through the other handle does not reach this handle's flag
CancelledAfterOtherCancel(flag) == flag

\* lines 85-90 and 113: likewise for the progress
ProgressAfterOtherCancel(prog) == prog

\* lines 110-115, called through the other handle
CancelThroughOther ==
    /\ otherCancelled' = TRUE
    /\ otherProgress' = 0
    /\ isValidationCancelled' = CancelledAfterOtherCancel(isValidationCancelled)
    /\ validationProgress' = ProgressAfterOtherCancel(validationProgress)
    /\ UNCHANGED <<pc, args, runLocals, thrown, cancelledAtEntry, previousResult, fileVars,
                   second>>

InitHandles ==
    /\ InitCells
    /\ data \in DataSet
    /\ validationSchema \in SchemaSet
    /\ unique \in {<<>>, << <<ColA>> >>}
    /\ fileData = NoFile

NextHandles == Entry \/ Resume \/ CancelThroughOther

SpecHandles == InitHandles /\ [][NextHandles]_vars

----------------------------------------------------------------------------
(* Two calls of validateData in flight on one handle, on the same           *)
(* arguments.  The second call has its own locals, kept in the record      *)
(* second, and shares the two cells.                                       *)

\* one segment of the second call, as Continue: the call's record and the
\* progress cell after the segment
SecondSegment(run, flag, prog) ==
    IF LoopRuns(run.rowIndex, Len(data), run.errors)
    THEN IF RowLoopCancelled(flag)
         THEN [run |-> [run EXCEPT !.pc = "cancelled", !.thrown = CarriedErrors(run.errors)],
               progress |-> prog]
         ELSE [run |-> [run EXCEPT
                          !.pc = "await",
                          !.thrown = <<>>,
                          !.errors = RowStepErrors(run.errors, data[run.rowIndex + 1],
                                                   run.rowIndex, ObjectEntries(validationSchema)),
                          !.processedData =
                              Append(run.processedData,
                                     ProcessedRow(data[run.rowIndex + 1],
                                                  ObjectEntries(validationSchema))),
                          !.uniqueValues = TrackRow(run.uniqueValues, data[run.rowIndex + 1],
                                                    run.rowIndex, unique),
                          !.completedSteps = NextCompleted(run.completedSteps),
                          !.rowIndex = run.rowIndex + 1],
               progress |-> getProgress(NextCompleted(run.completedSteps),
                                        totalSteps(data, unique))]
    ELSE IF LoopRuns(run.groupIndex, Len(ObjectEntries(run.uniqueValues)), run.errors)
    THEN IF GroupLoopCancelled(flag)
         THEN [run |-> [run EXCEPT !.pc = "cancelled", !.thrown = CarriedErrors(run.errors)],
               progress |-> prog]
         ELSE [run |-> [run EXCEPT
                          !.pc = "await",
                          !.thrown = <<>>,
                          !.errors = run.errors
                              \o DuplicateErrors(
                                    ObjectEntries(run.uniqueValues)[run.groupIndex + 1].key,
                                    ObjectEntries(run.uniqueValues)[run.groupIndex + 1].val),
                          !.completedSteps = NextCompleted(run.completedSteps),
                          !.groupIndex = run.groupIndex + 1],
               progress |-> getProgress(NextCompleted(run.completedSteps),
                                        totalSteps(data, unique))]
    ELSE [run |-> [run EXCEPT !.pc = "returned", !.thrown = <<>>], progress |-> prog]

\* validateData called a second time, possibly while the first call is suspended
SecondEntry ==
    /\ second.pc \in {"idle", "returned", "cancelled"}
    /\ pc # "idle"
    /\ LET fresh == [pc |-> "idle", errors |-> EntryErrors(second.errors),
                     processedData |-> <<>>, completedSteps |-> 0,
                     uniqueValues |-> InitUniqueValues(<<>>, unique),
                     rowIndex |-> 0, groupIndex |-> 0, thrown |-> <<>>]
           after == SecondSegment(fresh, EntryCancelled(isValidationCancelled),
                                  EntryProgress(validationProgress))
       IN  /\ second' = after.run
           /\ validationProgress' = after.progress
    /\ isValidationCancelled' = EntryCancelled(isValidationCancelled)
    /\ UNCHANGED <<pc, args, runLocals, thrown, cancelledAtEntry, previousResult, fileVars,
                   otherCells>>

\* the timer of line 177 fires for the second call
SecondResume ==
    /\ second.pc = "await"
    /\ LET after == SecondSegment(second, isValidationCancelled, validationProgress)
       IN  /\ second' = after.run
           /\ validationProgress' = after.progress
    /\ UNCHANGED <<isValidationCancelled, pc, args, runLocals, thrown, cancelledAtEntry,
                   previousResult, fileVars, otherCells>>

InitRuns ==
    /\ InitCells
    /\ data \in SeqsUpTo(FairRowSet, MaxRows)
    /\ validationSchema \in
          { << [key |-> ColA, val |-> Rule("string", TRUE, {"isEmail"}, FALSE, <<>>, "none")] >> }
    /\ unique \in {<<>>, << <<ColA>> >>}
    /\ fileData = NoFile

NextRuns == Entry \/ Resume \/ cancelValidation \/ SecondEntry \/ SecondResume

SpecRuns == InitRuns /\ [][NextRuns]_vars

----------------------------------------------------------------------------
(* validateExcelFile, lines 382-427, and direct calls of validateHeader *)

MaxFileRows == 2

HeaderSet ==
    { <<ColA, ColB>>,
      <<ColB, ColA, ColX>>,
      <<<<" ", "a", " ">>, ColB, ColX>>,
      <<ColA>>,
      <<ColX>>,
      <<ColA, ColB, ColAB>> }

\* rows as sheet_to_json keys them: by the header cells as written
FileRowSet == RowSet \cup {(<<" ", "a", " ">> :> Str(<<"x">>)) @@ (ColB :> Num(1))}

\* the rows a sheet with this header row can decode to
RowsUnder(header) ==
    SeqsUpTo({row \in FileRowSet : DOMAIN row \subseteq {header[i] : i \in 1..Len(header)}},
             MaxFileRows)

FileSet ==
    {NoFile} \cup
    UNION { { [readable |-> TRUE, rows |-> rows, header |-> header] : rows \in RowsUnder(header) } :
            header \in HeaderSet }

ERR_FORMAT == "Invalid Excel file format"

ERR_NO_DATA == "No data found in the file."

ERR_HEADER == "Invalid file format. Please check the sample template."

\* variant: the check for an empty sheet is missing
NoDataFound_Never(jsonData) == FALSE

\* line 407
NoDataFound(jsonData) == Len(jsonData) = 0

\* variant: the two cells are reset before the structural checks
validateExcelFile_ResetsFirst ==
    /\ pc \in {"idle", "returned", "cancelled"}
    /\ IF ~fileData.readable
       THEN /\ fileResult' = ERR_FORMAT
            /\ validationProgress' = 0
            /\ isValidationCancelled' = FALSE
            /\ UNCHANGED <<pc, args, runLocals, thrown, cancelledAtEntry>>
       ELSE IF NoDataFound(fileData.rows)
       THEN /\ fileResult' = ERR_NO_DATA
            /\ validationProgress' = 0
            /\ isValidationCancelled' = FALSE
            /\ UNCHANGED <<pc, args, runLocals, thrown, cancelledAtEntry>>
       ELSE IF ~validateHeader(validationSchema, fileData.header)
       THEN /\ fileResult' = ERR_HEADER
            /\ validationProgress' = 0
            /\ isValidationCancelled' = FALSE
            /\ UNCHANGED <<pc, args, runLocals, thrown, cancelledAtEntry>>
       ELSE /\ fileResult' = "validating"
            /\ ValidateDataCall(fileData.rows)
    /\ UNCHANGED <<previousResult, fileData, headerCall, otherCells, second>>

\* lines 382-427: the call of validateExcelFile up to its first await
validateExcelFile ==
    /\ pc \in {"idle", "returned", "cancelled"}
    /\ IF ~fileData.readable
       THEN /\ fileResult' = ERR_FORMAT
            /\ UNCHANGED <<validationProgress, isValidationCancelled, pc, args, runLocals,
                           thrown, cancelledAtEntry>>
       ELSE IF NoDataFound(fileData.rows)
       THEN /\ fileResult' = ERR_NO_DATA
            /\ UNCHANGED <<validationProgress, isValidationCancelled, pc, args, runLocals,
                           thrown, cancelledAtEntry>>
       ELSE IF ~validateHeader(validationSchema, fileData.header)
       THEN /\ fileResult' = ERR_HEADER
            /\ UNCHANGED <<validationProgress, isValidationCancelled, pc, args, runLocals,
                           thrown, cancelledAtEntry>>
       ELSE /\ fileResult' = "validating"
            /\ ValidateDataCall(fileData.rows)
    /\ UNCHANGED <<previousResult, fileData, headerCall, otherCells, second>>

\* line 425: what the call resolves with once validateData has returned
FileReturn == [rawData |-> data, processedData |-> processedData, errors |-> errors]

\* validateHeader called by the application
CallValidateHeader ==
    /\ \E header \in HeaderSet :
          headerCall' = [called |-> TRUE, header |-> header,
                         result |-> validateHeader(validationSchema, header)]
    /\ UNCHANGED <<validationProgress, isValidationCancelled, pc, args, runLocals, thrown,
                   cancelledAtEntry, previousResult, fileData, fileResult, otherCells, second>>

InitFile ==
    /\ InitCells
    /\ data = <<>>
    /\ validationSchema \in SchemaSet
    /\ unique \in {<<>>, << <<ColA>> >>}
    /\ fileData \in FileSet

NextFile == validateExcelFile \/ CallValidateHeader \/ Resume \/ cancelValidation

SpecFile == InitFile /\ [][NextFile]_vars

\* a file handed to validateExcelFile on a handle that also validates rows
\* the application holds itself
InitFileAfterRun ==
    /\ InitCells
    /\ data \in SeqsUpTo(FairRowSet, MaxFileRows)
    /\ validationSchema \in SchemaSet
    /\ unique \in {<<>>, << <<ColA>> >>}
    /\ fileData \in FileSet

NextFileAfterRun == Entry \/ validateExcelFile \/ Resume \/ cancelValidation

SpecFileAfterRun == InitFileAfterRun /\ [][NextFileAfterRun]_vars

\* rows whose cells hold the separator, a digit string beside the number it
\* spells, and a padded copy of another row's cell
KeyRowSet ==
    { (ColA :> Str(<<"x", "-", "y">>)) @@ (ColB :> Str(<<"z">>)),
      (ColA :> Str(<<"x">>)) @@ (ColB :> Str(<<"y", "-", "z">>)),
      (ColA :> Str(<<" ", "x", "-", "y">>)) @@ (ColB :> Str(<<"z", " ">>)),
      (ColA :> Num(1)) @@ (ColB :> Str(<<"z">>)),
      (ColA :> Str(<<"1">>)) @@ (ColB :> Str(<<"z">>)) }

InitKeys ==
    /\ InitCells
    /\ data \in SeqsUpTo(KeyRowSet, MaxRows)
    /\ validationSchema = << [key |-> ColA, val |-> NoRule], [key |-> ColB, val |-> NoRule] >>
    /\ unique \in { << <<ColA>> >>, << <<ColA, ColB>> >>, << <<ColB>>, <<ColA, ColB>> >> }
    /\ fileData = NoFile

SpecKeys == InitKeys /\ [][Next]_vars

SpecColumns == InitColumns /\ [][Next]_vars

Spec == Init /\ [][Next]_vars

TypeOK ==
    /\ validationProgress \in 0..100
    /\ isValidationCancelled \in BOOLEAN
    /\ pc \in {"idle", "await", "returned", "cancelled"}

----------------------------------------------------------------------------
(* Helpers of the properties *)

SchemaEntries == ObjectEntries(validationSchema)

GroupEntries == ObjectEntries(uniqueValues)

SchemaColumns == {validationSchema[i].key : i \in 1..Len(validationSchema)}

\* a checkpoint lies ahead of the suspended call: a row or a group is left
AtCheckpoint == rowIndex < Len(data) \/ groupIndex < Len(GroupEntries)

\* the errors pushed by the first k iterations of the row loop
RECURSIVE ErrorsOfRows(_)
ErrorsOfRows(k) ==
    IF k = 0 THEN <<>>
    ELSE ErrorsOfRows(k - 1) \o RowErrors(data[k], k - 1, SchemaEntries)

\* the errors pushed by the first g iterations of the group loop
RECURSIVE ErrorsOfGroups(_)
ErrorsOfGroups(g) ==
    IF g = 0 THEN <<>>
    ELSE ErrorsOfGroups(g - 1) \o DuplicateErrors(GroupEntries[g].key, GroupEntries[g].val)

IsDuplicateError(e) == e.errorType = "DUPLICATE"

HasDuplicateError(errs) == \E i \in 1..Len(errs) : IsDuplicateError(errs[i])

HasCellError(errs) == \E i \in 1..Len(errs) : ~IsDuplicateError(errs[i])

----------------------------------------------------------------------------
(* Properties *)

\* C1: a call raises the cancellation signal exactly when a resumed segment
\* finds isValidationCancelled set at the head of a row iteration or of a
\* group iteration (the segment that starts at the call finds it cleared and
\* never raises); the raising segment validates no row and resolves no group,
\* and nothing of the call changes after the signal until the next call.
C1_CancelledIffObservedAtCheckpoint ==
    [][ /\ Resume => (pc' = "cancelled" <=> (isValidationCancelled /\ AtCheckpoint))
        /\ Entry => pc' # "cancelled"
        /\ (pc' = "cancelled" /\ pc # "cancelled") => Resume /\ UNCHANGED runLocals
        /\ (pc = "cancelled" /\ ~Entry) => UNCHANGED <<pc, runLocals, thrown>> ]_vars

\* C1 witness: the signal raised at the head of a group iteration, after a
\* group has already been resolved
C1_Witness ==
    /\ pc = "cancelled"
    /\ rowIndex = Len(data) /\ Len(data) >= 1
    /\ groupIndex >= 1 /\ groupIndex < Len(GroupEntries)

\* C2: the errors carried by the cancellation signal are exactly the errors
\* pushed by the completed row iterations followed by those of the completed
\* group iterations.
C2_CarriedErrorsAreCompletedSteps ==
    pc = "cancelled" => thrown = ErrorsOfRows(rowIndex) \o ErrorsOfGroups(groupIndex)

\* C2 witness: a signal carrying both per-cell and DUPLICATE errors
C2_Witness ==
    /\ pc = "cancelled"
    /\ HasCellError(thrown)
    /\ HasDuplicateError(thrown)

\* C3 (as stated): a flag set before any row is processed makes the call
\* fail with the cancellation signal carrying no error.
C3_Original ==
    [][ (Entry /\ isValidationCancelled /\ Len(data) >= 1)
            => (pc' = "cancelled" /\ thrown' = <<>>) ]_vars

\* C3 (amended): a flag set before the call is cleared by the entry reset and
\* the first step runs in the segment of the call, so no call raises the
\* signal before it has completed a step, and the signal carries the errors
\* of the completed steps.
C3_NoCancellationBeforeFirstStep ==
    /\ [][ Entry => /\ pc' # "cancelled"
                    /\ completedSteps' = (IF totalSteps(data, unique) > 0 THEN 1 ELSE 0) ]_vars
    /\ [](pc = "cancelled" => completedSteps >= 1 /\ thrown = errors)

\* C3 witness: a call entered with the flag set, cancelled at its first
\* checkpoint with the errors of its first row
C3_Witness ==
    /\ cancelledAtEntry
    /\ pc = "cancelled"
    /\ completedSteps = 1 /\ rowIndex = 1
    /\ thrown # <<>>

\* C4 (as stated): with the flag set during the yield after the first row,
\* the call raises the signal with exactly the first row's errors, for every
\* input.
C4_Original ==
    [][ (Resume /\ rowIndex = 1 /\ completedSteps = 1 /\ isValidationCancelled)
            => (pc' = "cancelled" /\ thrown' = RowErrors(data[1], 0, SchemaEntries)) ]_vars

\* C4 (amended): the same, for every input with a second row or a constraint
\* group; with one row and no group no checkpoint is left and the call
\* returns normally.
C4_CancelAfterFirstRow ==
    [][ (Resume /\ rowIndex = 1 /\ completedSteps = 1 /\ isValidationCancelled)
            => IF Len(data) >= 2 \/ Len(unique) >= 1
               THEN pc' = "cancelled" /\ thrown' = RowErrors(data[1], 0, SchemaEntries)
               ELSE pc' = "returned" /\ errors' = RowErrors(data[1], 0, SchemaEntries) ]_vars

\* C4 witness: cancelled at the checkpoint of the second row, carrying the
\* several errors of the first row
C4_Witness ==
    /\ pc = "cancelled"
    /\ rowIndex = 1 /\ Len(data) >= 2
    /\ Len(thrown) >= 2
    /\ ~cancelledAtEntry

\* C5 (as stated): in a call over N rows and M groups (N + M > 0) during which
\* cancelValidation is not called, progress never decreases from one segment
\* to the next and the call returns with progress 100 after exactly N + M
\* increments.
C5_Original ==
    /\ [][ (Resume /\ ~isValidationCancelled) => validationProgress' >= validationProgress ]_vars
    /\ []((pc = "returned" /\ ~isValidationCancelled /\ totalSteps(data, unique) > 0)
            => (validationProgress = 100 /\ completedSteps = Len(data) + Len(unique)))

\* C6: completedSteps never exceeds totalSteps, and it counts one step per
\* processed row (plus one per resolved group) whatever the number of errors.
C6_CompletedStepsBounded ==
    /\ completedSteps <= totalSteps(data, unique)
    /\ Len(processedData) = rowIndex
    /\ completedSteps = Len(processedData) + groupIndex

\* C6 witness: one processed row with several errors, counted as one step
C6_Witness ==
    /\ pc = "await"
    /\ Len(processedData) = 1
    /\ completedSteps = 1
    /\ Len(errors) >= 3

\* C7: whatever the cells hold, the call clears the flag, does not raise the
\* signal in its first segment, and leaves the progress of its own first step
\* (0 when there is no step).
C7_EntryResetsCells ==
    [][ Entry => /\ ~isValidationCancelled'
                 /\ pc' # "cancelled"
                 /\ validationProgress' =
                        (IF totalSteps(data, unique) = 0 THEN 0
                         ELSE getProgress(1, totalSteps(data, unique))) ]_vars

\* C7 witness: a call entered with the flag set has returned normally, having
\* processed every row
C7_Witness ==
    /\ cancelledAtEntry
    /\ pc = "returned"
    /\ ~isValidationCancelled
    /\ Len(processedData) = Len(data) /\ Len(data) >= 1

\* the rows (1-based positions in data) that produce a composite key in group g
RowsProducing(g, key) == {i \in 1..Len(data) : CompositeKey(data[i], unique[g]) = key}

\* the positions in errs of the DUPLICATE errors of group g and a composite key
DuplicatesFor(errs, g, key) ==
    {j \in 1..Len(errs) : /\ IsDuplicateError(errs[j])
                          /\ errs[j].column = Join(unique[g], Dash)
                          /\ errs[j].message.key = key}

\* C8 (as stated): when the call has returned, for every group and every
\* composite key produced by k rows there are exactly k DUPLICATE errors of
\* that group and key, one per producing row (row = index + 2), if k > 1,
\* and none if k = 1.
C8_Original ==
    pc = "returned" =>
        \A g \in 1..Len(unique) : \A i \in 1..Len(data) :
            LET key == CompositeKey(data[i], unique[g])
                producers == RowsProducing(g, key)
                dups == DuplicatesFor(errors, g, key)
            IN  IF Cardinality(producers) > 1
                THEN /\ Cardinality(dups) = Cardinality(producers)
                     /\ \A r \in producers :
                          Cardinality({j \in dups : errors[j].row = (r - 1) + ROW_NUMBER_OFFSET}) = 1
                ELSE dups = {}

\* C9: while a row is left to process the error list holds no DUPLICATE
\* error, and neither does the list carried by a signal raised then.
C9_NoDuplicateBeforeAllRows ==
    rowIndex < Len(data) =>
        /\ ~HasDuplicateError(errors)
        /\ pc = "cancelled" => ~HasDuplicateError(thrown)

\* C9 witness: the signal raised in the row phase after two rows with the
\* same composite key were processed, carrying per-cell errors
C9_Witness ==
    /\ pc = "cancelled"
    /\ rowIndex < Len(data)
    /\ \E g \in 1..Len(uniqueValues) : \E k \in 1..Len(uniqueValues[g].val) :
           Len(uniqueValues[g].val[k].val) > 1
    /\ thrown # <<>>

\* C10: when the call has returned, processedData has one row per input row,
\* in input order, each with exactly the schema's columns as keys and the
\* trimmed-or-unchanged raw value (undefined for a column the row lacks).
C10_ProcessedDataShape ==
    pc = "returned" =>
        /\ Len(processedData) = Len(data)
        /\ \A i \in 1..Len(data) :
              /\ DOMAIN processedData[i] = SchemaColumns
              /\ \A c \in SchemaColumns :
                    processedData[i][c] =
                        (IF c \notin DOMAIN data[i] THEN Undefined
                         ELSE IF data[i][c].kind = "string" THEN Str(Trim(data[i][c].s))
                         ELSE data[i][c])

\* C10 witness: a returned call whose input has a row with a column outside
\* the schema and a row lacking a schema column, and a trimmed value
C10_Witness ==
    /\ pc = "returned"
    /\ \E i \in 1..Len(data) : DOMAIN data[i] \ SchemaColumns # {}
    /\ \E i \in 1..Len(data) : SchemaColumns \ DOMAIN data[i] # {}
    /\ \E i \in 1..Len(data) : \E c \in SchemaColumns \cap DOMAIN data[i] :
           processedData[i][c] # data[i][c]

\* the positions in errs of the errors of one cell with a type in types
ErrorsAt(errs, rowNumber, column, types) ==
    {j \in 1..Len(errs) : /\ errs[j].row = rowNumber
                          /\ errs[j].column = column
                          /\ errs[j].errorType \in types}

LaterCheckTypes ==
    {"TYPE_MISMATCH", "EMAIL_RULE", "MOBILE_RULE", "EMPLOYEE_RULE", "ACCEPTED_VALUES",
     "CUSTOM_VALIDATION"}

\* the raw cell is null, undefined, absent or a string that trims to ""
IsMissing(raw) == raw.kind \in {"null", "undefined"} \/ (raw.kind = "string" /\ Trim(raw.s) = <<>>)

\* C11: for every processed row and every required column whose value is
\* null, undefined or empty after trimming, the error list holds exactly one
\* REQUIRED error of that row and column and no error of a later check.
C11_RequiredOnlyOnce ==
    \A i \in 1..rowIndex : \A e \in 1..Len(validationSchema) :
        LET column == validationSchema[e].key
            rowNumber == (i - 1) + ROW_NUMBER_OFFSET
        IN  (validationSchema[e].val.required /\ IsMissing(Get(data[i], column)))
                => /\ Cardinality(ErrorsAt(errors, rowNumber, column, {"REQUIRED"})) = 1
                   /\ ErrorsAt(errors, rowNumber, column, LaterCheckTypes) = {}

\* C11 witness: a whitespace-only string under a required rule that also
\* declares validators, accepted values and a custom validator
C11_Witness ==
    /\ rowIndex = 1
    /\ validationSchema[1].val.required
    /\ validationSchema[1].val.validators # {}
    /\ validationSchema[1].val.hasAccepted
    /\ validationSchema[1].val.customValidator = "rejectAll"
    /\ Get(data[1], ColA) = Str(<<" ">>)
    /\ Len(errors) = 1 /\ errors[1].errorType = "REQUIRED"

\* C12: validateHeader returns false exactly when some schema key is not
\* among the trimmed header values; columns outside the schema never matter.
C12_HeaderRejectedIffMissing ==
    headerCall.called =>
        (headerCall.result = FALSE
            <=> \E c \in SchemaColumns :
                    \A i \in 1..Len(headerCall.header) : Trim(headerCall.header[i]) # c)

\* C12 witness: accepted with a header that matches only once trimmed and
\* that carries a column outside the schema
C12_Witness ==
    /\ headerCall.called
    /\ headerCall.result
    /\ \E i \in 1..Len(headerCall.header) :
          headerCall.header[i] \notin SchemaColumns /\ Trim(headerCall.header[i]) \in SchemaColumns
    /\ \E i \in 1..Len(headerCall.header) : Trim(headerCall.header[i]) \notin SchemaColumns

\* C13: a call that follows a returned call on the same input returns the
\* same errors (as a collection) and the same processed rows.
C13_SecondRunSameResult ==
    (pc = "returned" /\ previousResult.returned) =>
        /\ processedData = previousResult.processedData
        /\ Len(errors) = Len(previousResult.errors)
        /\ \A j \in 1..Len(errors) :
              Cardinality({k \in 1..Len(errors) : errors[k] = errors[j]})
                = Cardinality({k \in 1..Len(previousResult.errors) :
                                  previousResult.errors[k] = errors[j]})

\* C13 witness: the second of two returned calls, with errors and rows
C13_Witness ==
    /\ pc = "returned"
    /\ previousResult.returned
    /\ Len(errors) >= 2
    /\ Len(processedData) >= 2

\* every row has been checked and every entry of uniqueValues resolved, and
\* the error list holds all their errors
RunComplete ==
    /\ rowIndex = Len(data)
    /\ Len(processedData) = Len(data)
    /\ groupIndex = Len(GroupEntries)
    /\ errors = ErrorsOfRows(Len(data)) \o ErrorsOfGroups(Len(GroupEntries))

\* C14: a suspended call whose flag is not set goes on, unless the flag gets
\* set, to return normally with every row checked and every group resolved,
\* whatever errors it has recorded.
C14_ErrorsNeverAbort ==
    (pc = "await" /\ ~isValidationCancelled)
        ~> (isValidationCancelled \/ (pc = "returned" /\ RunComplete))

\* C14 witness: a normal return with per-cell and DUPLICATE errors recorded
C14_Witness ==
    /\ pc = "returned"
    /\ ~isValidationCancelled
    /\ RunComplete
    /\ HasCellError(errors)
    /\ HasDuplicateError(errors)

\* some schema column is not among the trimmed cells of the file's header row
HeaderMismatch ==
    \E c \in SchemaColumns :
        \A i \in 1..Len(fileData.header) : Trim(fileData.header[i]) # c

\* the run state of validateData and the two cells
RunState == <<validationProgress, isValidationCancelled, pc, data, errors, processedData,
              completedSteps, uniqueValues, rowIndex, groupIndex, thrown>>

\* C15: a call of validateExcelFile fails with the decode error, the
\* empty-data error or the header error when the file is unreadable, has no
\* data row or has a rejected header, leaving the run state and both cells
\* as they were; otherwise, and only then, it enters validateData.
C15_StructuralFailureBeforeRows ==
    [][ validateExcelFile =>
          IF ~fileData.readable
          THEN fileResult' = ERR_FORMAT /\ UNCHANGED RunState
          ELSE IF Len(fileData.rows) = 0
          THEN fileResult' = ERR_NO_DATA /\ UNCHANGED RunState
          ELSE IF HeaderMismatch
          THEN fileResult' = ERR_HEADER /\ UNCHANGED RunState
          ELSE /\ fileResult' = "validating"
               /\ rowIndex' = 1
               /\ Len(processedData') = 1
               /\ pc' = "await" ]_vars

\* C15 witness: a file with data rows was refused for its header, and no row
\* was validated
C15_Witness ==
    /\ fileResult = ERR_HEADER
    /\ Len(fileData.rows) >= 1
    /\ pc = "idle"
    /\ processedData = <<>>
    /\ errors = <<>>

\* C16: during and after a run started by validateExcelFile (suspended,
\* returned or cancelled) the caller's rows are the decoded rows, and so is
\* the rawData of the result.
C16_InputRowsUntouched ==
    fileResult = "validating" =>
        /\ data = fileData.rows
        /\ FileReturn.rawData = fileData.rows

\* C16 witness: a returned run whose processed row holds a trimmed value
\* where the input row still holds the untrimmed one
C16_Witness ==
    /\ fileResult = "validating"
    /\ pc = "returned"
    /\ \E i \in 1..Len(data) :
          /\ ColA \in DOMAIN data[i]
          /\ data[i][ColA] = Str(<<" ", "x", " ">>)
          /\ Get(processedData[i], ColA) = Str(<<"x">>)

RECURSIVE TrackRows(_, _, _)
TrackRows(obj, k, groups) ==
    IF k = 0 THEN obj
    ELSE TrackRow(TrackRows(obj, k - 1, groups), data[k], k - 1, groups)

\* the DUPLICATE errors of a call over data with this group alone
SoloDuplicates(cols) ==
    LET uv == ObjectEntries(TrackRows(InitUniqueValues(<<>>, <<cols>>), Len(data), <<cols>>))
    IN  DuplicateErrors(uv[1].key, uv[1].val)

\* the DUPLICATE errors of the first g groups, each taken alone
RECURSIVE SoloDuplicatesOfGroups(_)
SoloDuplicatesOfGroups(g) ==
    IF g = 0 THEN <<>>
    ELSE SoloDuplicatesOfGroups(g - 1) \o SoloDuplicates(unique[g])

CountIn(e, list) == Cardinality({j \in 1..Len(list) : list[j] = e})

\* C18 (as stated): when the call has returned, every group has contributed
\* one step and the DUPLICATE errors are, up to order, those that each group
\* emits when it is the only group.
C18_Original ==
    pc = "returned" =>
        LET dups == SelectSeq(errors, IsDuplicateError)
            solo == SoloDuplicatesOfGroups(Len(unique))
        IN  /\ completedSteps = Len(data) + Len(unique)
            /\ Len(dups) = Len(solo)
            /\ \A j \in 1..Len(dups) : CountIn(dups[j], dups) = CountIn(dups[j], solo)

ValidatorErrorType(name) ==
    CASE name = "isEmail" -> "EMAIL_RULE"
      [] name = "isMobileNumber" -> "MOBILE_RULE"
      [] name = "isEmployeeNumber" -> "EMPLOYEE_RULE"

\* the value does not match the validator's pattern; test() and String()
\* turn a value of any kind into a string first
FailsValidator(name, value) ==
    CASE name = "isEmail" -> ~isEmail(ToStr(value))
      [] name = "isMobileNumber" -> ~isMobileNumber(value)
      [] name = "isEmployeeNumber" -> ~isEmployeeNumber(value)

\* C19 (as stated): for every processed row and every column whose value is
\* non-null and passes the required and type checks, every enabled built-in
\* validator that the value fails has exactly one error of its type at that
\* cell, whatever the kind of the value.
C19_Original ==
    \A i \in 1..rowIndex : \A e \in 1..Len(validationSchema) :
        LET column == validationSchema[e].key
            rules == validationSchema[e].val
            value == CellValue(data[i], column)
            rowNumber == (i - 1) + ROW_NUMBER_OFFSET
        IN  (~IsNullish(value) /\ ~RequiredFails(rules, value) /\ ~TypeFails(rules, value))
                => \A name \in rules.validators :
                      FailsValidator(name, value)
                        => Cardinality(ErrorsAt(errors, rowNumber, column,
                                                {ValidatorErrorType(name)})) = 1

\* the second argument of a call customValidator(value, row)
WithRow(row) == [given |-> TRUE, row |-> row]

\* C20 (as stated): for every processed row and every column that declares a
\* custom validator and whose value reaches it (the required and type checks
\* passed), the validator is called, with the value and the row, exactly when
\* the value is non-null; the cell has one CUSTOM_VALIDATION error, the
\* fragment with the row number and column merged in, when that call does
\* not return true, and none otherwise.
C20_Original ==
    \A i \in 1..rowIndex : \A e \in 1..Len(validationSchema) :
        LET column == validationSchema[e].key
            rules == validationSchema[e].val
            value == CellValue(data[i], column)
            rowNumber == (i - 1) + ROW_NUMBER_OFFSET
            found == ErrorsAt(errors, rowNumber, column, {"CUSTOM_VALIDATION"})
        IN  (rules.customValidator # "none" /\ ~RequiredFails(rules, value) /\ ~TypeFails(rules, value)) =>
                IF ~IsNullish(value) /\ ~CustomValid(rules.customValidator, value, WithRow(data[i]))
                THEN /\ Cardinality(found) = 1
                     /\ \A j \in found :
                          errors[j] = [CustomFragment EXCEPT !.row = rowNumber, !.column = column]
                ELSE found = {}

\* the errors that the step appended after position from are per-cell errors
\* of the row of index idx and of a schema column
NewCellErrorsOf(from, idx) ==
    \A j \in (from + 1)..Len(errors') :
        ~IsDuplicateError(errors'[j])
            => /\ errors'[j].row = idx + ROW_NUMBER_OFFSET
               /\ errors'[j].column \in SchemaColumns

\* C21: every per-cell error pushed while the row of index i is processed
\* records row i + 2 and a column of the schema, also when it is built from
\* a custom validator's fragment that names another row and column.
C21_ErrorRowAndColumn ==
    [][ /\ Entry => NewCellErrorsOf(0, 0)
        /\ Resume => NewCellErrorsOf(Len(errors), rowIndex) ]_vars

\* C21 witness: the second row produced a custom-validation error; the
\* fragment names row 99 and column z
C21_Witness ==
    /\ rowIndex >= 2
    /\ CustomFragment.row = 99
    /\ \E j \in 1..Len(errors) :
          /\ errors[j].errorType = "CUSTOM_VALIDATION"
          /\ errors[j].row = 1 + ROW_NUMBER_OFFSET
          /\ errors[j].column = ColA

\* the row numbers recorded under a composite key in the map of a group
RowsRecorded(cols, key) ==
    LET valueMap == GetKey(uniqueValues, GroupKey(cols))
    IN  UNION {{valueMap[m].val[n] : n \in 1..Len(valueMap[m].val)} :
                  m \in {k \in 1..Len(valueMap) : valueMap[k].key = key}}

\* every row number recorded in the map of a group
AllRowsRecorded(cols) ==
    LET valueMap == GetKey(uniqueValues, GroupKey(cols))
    IN  UNION {{valueMap[m].val[n] : n \in 1..Len(valueMap[m].val)} : m \in 1..Len(valueMap)}

\* C22: when the cancellation signal is raised, the first rowIndex rows are
\* fully processed (every schema column checked and its errors recorded, the
\* processed row appended, the map of every group updated, the step
\* counted) and no later row has left any trace.
C22_CancellationBetweenRows ==
    pc = "cancelled" =>
        /\ Len(processedData) = rowIndex
        /\ \A i \in 1..rowIndex : DOMAIN processedData[i] = SchemaColumns
        /\ SelectSeq(thrown, LAMBDA e : ~IsDuplicateError(e)) = ErrorsOfRows(rowIndex)
        /\ completedSteps = rowIndex + groupIndex
        /\ \A g \in 1..Len(unique) :
              /\ \A i \in 1..rowIndex :
                    (i - 1) + ROW_NUMBER_OFFSET
                        \in RowsRecorded(unique[g], CompositeKey(data[i], unique[g]))
              /\ \A i \in (rowIndex + 1)..Len(data) :
                    (i - 1) + ROW_NUMBER_OFFSET \notin AllRowsRecorded(unique[g])

\* C22 witness: cancelled between the first and the second row of a call
\* with two groups, the first row having produced errors
C22_Witness ==
    /\ pc = "cancelled"
    /\ rowIndex = 1
    /\ Len(data) >= 2
    /\ Len(unique) = 2
    /\ thrown # <<>>

\* C23 (as stated): after k rows have been processed, in the map of every
\* group each of the k row numbers appears exactly once across all row lists.
C23_Original ==
    pc # "idle" =>
        \A g \in 1..Len(unique) :
            LET valueMap == GetKey(uniqueValues, GroupKey(unique[g]))
            IN  \A i \in 1..rowIndex :
                    Cardinality({<<m, n>> \in (1..Len(valueMap)) \X (1..(rowIndex + 1)) :
                                    /\ n <= Len(valueMap[m].val)
                                    /\ valueMap[m].val[n] = (i - 1) + ROW_NUMBER_OFFSET}) = 1

\* a non-null value fails the check that emits errors of this type; the
\* custom validator taken is the one that rejects whatever it is given
CheckFails(type, rules, value) ==
    CASE type = "TYPE_MISMATCH" -> rules.type # "none" /\ TypeOf(value) # rules.type
      [] type = "EMAIL_RULE" ->
            "isEmail" \in rules.validators /\ TypeOf(value) = "string" /\ ~isEmail(value.s)
      [] type = "MOBILE_RULE" ->
            /\ "isMobileNumber" \in rules.validators
            /\ TypeOf(value) \in {"string", "number"} /\ ~isMobileNumber(value)
      [] type = "EMPLOYEE_RULE" ->
            /\ "isEmployeeNumber" \in rules.validators
            /\ TypeOf(value) \in {"string", "number"} /\ ~isEmployeeNumber(value)
      [] type = "ACCEPTED_VALUES" -> rules.hasAccepted /\ ~Includes(rules.acceptedValues, value)
      [] type = "CUSTOM_VALIDATION" -> rules.customValidator = "rejectAll"

AfterTypeCheckTypes == LaterCheckTypes \ {"TYPE_MISMATCH"}

\* C24 (as stated): for every processed cell whose value is non-null and
\* passes the required check, each of the type check, the built-in
\* validators, the accepted-values check and the custom validator that the
\* value fails has its error in the list.
C24_Original ==
    \A i \in 1..rowIndex : \A e \in 1..Len(validationSchema) :
        LET column == validationSchema[e].key
            rules == validationSchema[e].val
            value == CellValue(data[i], column)
            rowNumber == (i - 1) + ROW_NUMBER_OFFSET
        IN  (~IsNullish(value) /\ ~RequiredFails(rules, value))
                => \A type \in LaterCheckTypes :
                      CheckFails(type, rules, value)
                        => Cardinality(ErrorsAt(errors, rowNumber, column, {type})) = 1

\* C24 (amended): for every processed cell whose value is non-null and
\* passes the required and the type check, each of the built-in validators,
\* the accepted-values check and the custom validator that the value fails
\* has its error in the list; a cell that fails the required check or the
\* type check has that one error and no other.
C24_LaterChecksAccumulate ==
    \A i \in 1..rowIndex : \A e \in 1..Len(validationSchema) :
        LET column == validationSchema[e].key
            rules == validationSchema[e].val
            value == CellValue(data[i], column)
            rowNumber == (i - 1) + ROW_NUMBER_OFFSET
            typeFails == ~IsNullish(value) /\ CheckFails("TYPE_MISMATCH", rules, value)
        IN  /\ (~IsNullish(value) /\ ~RequiredFails(rules, value) /\ ~typeFails)
                => \A type \in AfterTypeCheckTypes :
                      CheckFails(type, rules, value)
                        => Cardinality(ErrorsAt(errors, rowNumber, column, {type})) = 1
            /\ (RequiredFails(rules, value) \/ typeFails)
                => Cardinality(ErrorsAt(errors, rowNumber, column,
                                        LaterCheckTypes \cup {"REQUIRED"})) = 1

\* C24 witness: one cell with the errors of three validators, of the
\* accepted-values check and of the custom validator
C24_Witness ==
    /\ rowIndex = 1
    /\ \A type \in AfterTypeCheckTypes :
          Cardinality(ErrorsAt(errors, ROW_NUMBER_OFFSET, ColA, {type})) = 1

\* C25 (as stated): a processed cell of a column that declares a type, whose
\* value is non-null and of another kind, has exactly one TYPE_MISMATCH error
\* and no error of a validator, of the accepted values or of the custom
\* validator; a cell whose value is null or undefined, or whose column
\* declares no type, has no TYPE_MISMATCH error.
C25_Original ==
    \A i \in 1..rowIndex : \A e \in 1..Len(validationSchema) :
        LET column == validationSchema[e].key
            rules == validationSchema[e].val
            value == CellValue(data[i], column)
            rowNumber == (i - 1) + ROW_NUMBER_OFFSET
        IN  /\ (rules.type # "none" /\ ~IsNullish(value) /\ TypeOf(value) # rules.type)
                => /\ Cardinality(ErrorsAt(errors, rowNumber, column, {"TYPE_MISMATCH"})) = 1
                   /\ ErrorsAt(errors, rowNumber, column, AfterTypeCheckTypes) = {}
            /\ (rules.type = "none" \/ IsNullish(value))
                => ErrorsAt(errors, rowNumber, column, {"TYPE_MISMATCH"}) = {}

\* C25 (amended): the same for a cell that passes the required check; a cell
\* that fails the required check has no TYPE_MISMATCH error, whatever its
\* kind.
C25_TypeMismatchOnce ==
    \A i \in 1..rowIndex : \A e \in 1..Len(validationSchema) :
        LET column == validationSchema[e].key
            rules == validationSchema[e].val
            value == CellValue(data[i], column)
            rowNumber == (i - 1) + ROW_NUMBER_OFFSET
        IN  /\ (rules.type # "none" /\ ~IsNullish(value) /\ TypeOf(value) # rules.type
                  /\ ~RequiredFails(rules, value))
                => /\ Cardinality(ErrorsAt(errors, rowNumber, column, {"TYPE_MISMATCH"})) = 1
                   /\ ErrorsAt(errors, rowNumber, column, AfterTypeCheckTypes) = {}
            /\ (rules.type = "none" \/ IsNullish(value) \/ RequiredFails(rules, value))
                => ErrorsAt(errors, rowNumber, column, {"TYPE_MISMATCH"}) = {}

\* C25 witness: a string under a column of type number that also declares
\* validators, accepted values and a rejecting custom validator
C25_Witness ==
    /\ rowIndex = 1
    /\ validationSchema[1].val.type = "number"
    /\ validationSchema[1].val.validators # {}
    /\ validationSchema[1].val.hasAccepted
    /\ validationSchema[1].val.customValidator = "rejectAll"
    /\ Get(data[1], ColA) = Str(<<" ", "b", "a", "d">>)
    /\ Len(errors) = 1 /\ errors[1].errorType = "TYPE_MISMATCH"

GroupIndexOf(column) ==
    CHOOSE g \in 1..Len(unique) :
        /\ GroupKey(unique[g]) = column
        /\ \A h \in 1..(g - 1) : GroupKey(unique[h]) # column

\* the first row that produced this composite key for a group of that name
FirstSeen(column, key) ==
    CHOOSE i \in 1..Len(data) :
        /\ \E g \in 1..Len(unique) :
              GroupKey(unique[g]) = column /\ CompositeKey(data[i], unique[g]) = key
        /\ \A j \in 1..(i - 1) : \A g \in 1..Len(unique) :
              ~(GroupKey(unique[g]) = column /\ CompositeKey(data[j], unique[g]) = key)

\* C27 (as stated): in the returned list the DUPLICATE errors come group by
\* group in declaration order, within a group key by key in first-seen
\* order, and for one key in ascending row order.
C27_Original ==
    pc = "returned" =>
        LET dups == SelectSeq(errors, IsDuplicateError)
        IN  \A p \in 1..Len(dups) : \A q \in (p + 1)..Len(dups) :
                /\ GroupIndexOf(dups[p].column) <= GroupIndexOf(dups[q].column)
                /\ dups[p].column = dups[q].column
                      => FirstSeen(dups[p].column, dups[p].message.key)
                            <= FirstSeen(dups[q].column, dups[q].message.key)
                /\ (dups[p].column = dups[q].column /\ dups[p].message.key = dups[q].message.key)
                      => dups[p].row <= dups[q].row

\* the position of a column in the schema as declared
DeclaredIndex(column) ==
    CHOOSE e \in 1..Len(validationSchema) : validationSchema[e].key = column

\* C28 (as stated): in the returned list the per-cell errors come row by row
\* in input order, within a row in the order the schema declares its
\* columns, and all of them before any DUPLICATE error.
C28_Original ==
    pc = "returned" =>
        \A p \in 1..Len(errors) : \A q \in (p + 1)..Len(errors) :
            /\ ~(IsDuplicateError(errors[p]) /\ ~IsDuplicateError(errors[q]))
            /\ (~IsDuplicateError(errors[p]) /\ ~IsDuplicateError(errors[q]))
                  => /\ errors[p].row <= errors[q].row
                     /\ errors[p].row = errors[q].row
                           => DeclaredIndex(errors[p].column) <= DeclaredIndex(errors[q].column)

\* the list holds a DUPLICATE error of this row number, column and key whose
\* message lists both row numbers
ReportedDuplicate(rowNumber, otherNumber, column, key) ==
    \E j \in 1..Len(errors) :
        /\ IsDuplicateError(errors[j])
        /\ errors[j].row = rowNumber
        /\ errors[j].column = column
        /\ errors[j].message.key = key
        /\ Includes(errors[j].message.rows, rowNumber)
        /\ Includes(errors[j].message.rows, otherNumber)

\* C29: when the call has returned, for every single-column group, two rows
\* whose value of that column is null, undefined or absent are reported as
\* duplicates of each other under the key "NULL", and two rows whose values
\* are strings equal once trimmed are reported as duplicates of each other
\* under the trimmed string.
C29_NullSentinelAndTrimmedKeys ==
    pc = "returned" =>
        \A g \in 1..Len(unique) : \A i \in 1..Len(data) : \A j \in 1..Len(data) :
            LET column == unique[g][1]
                vi == IF column \in DOMAIN data[i] THEN data[i][column] ELSE Undefined
                vj == IF column \in DOMAIN data[j] THEN data[j][column] ELSE Undefined
                ni == (i - 1) + ROW_NUMBER_OFFSET
                nj == (j - 1) + ROW_NUMBER_OFFSET
            IN  (Len(unique[g]) = 1 /\ i # j) =>
                    /\ (vi.kind \in {"null", "undefined"} /\ vj.kind \in {"null", "undefined"})
                          => ReportedDuplicate(ni, nj, column, NULLSentinel)
                    /\ (vi.kind = "string" /\ vj.kind = "string" /\ Trim(vi.s) = Trim(vj.s))
                          => ReportedDuplicate(ni, nj, column, Trim(vi.s))

\* C29 witness: a row whose column b is null and a row without column b are
\* reported as duplicates of each other under "NULL", in a call that also
\* declares the group of column a
C29_Witness ==
    /\ pc = "returned"
    /\ \E i \in 1..Len(data) : \E j \in 1..Len(data) :
          /\ ColB \in DOMAIN data[i] /\ data[i][ColB] = Null
          /\ ColB \notin DOMAIN data[j]
          /\ ReportedDuplicate(i + 1, j + 1, ColB, NULLSentinel)
    /\ \E g \in 1..Len(unique) : unique[g] = <<ColA>>

\* the joined names of the declared groups
GroupNames == {GroupKey(unique[g]) : g \in 1..Len(unique)}

C31_Original ==
    [][ (Resume /\ isValidationCancelled) => pc' = "cancelled" ]_vars

\* C31 (amended): a call suspended with the flag set and a row or a group
\* still ahead ends with the cancellation signal; a call suspended after its
\* last step returns its results although the flag is set.
C31_CancelledUnlessLastStep ==
    /\ (pc = "await" /\ isValidationCancelled /\ AtCheckpoint) ~> (pc = "cancelled")
    /\ [][ (Resume /\ isValidationCancelled /\ ~AtCheckpoint) => pc' = "returned" ]_vars

\* C31 witness: the flag set during the yield after the last of two or more
\* rows was observed at the head of the first group
C31_Witness ==
    /\ pc = "cancelled"
    /\ isValidationCancelled
    /\ Len(data) >= 2
    /\ rowIndex = Len(data)
    /\ groupIndex = 0
    /\ Len(unique) >= 1

\* C32 (as stated): when the second call is started while the first call is
\* suspended with a row or a group ahead and the flag set (a cancellation
\* that the first call has not yet observed), the flag is still set after
\* the entry of the second call.
C32_Original ==
    [][ (SecondEntry /\ pc = "await" /\ AtCheckpoint /\ isValidationCancelled)
            => isValidationCancelled' ]_vars

\* C33: a segment that starts with the flag set writes neither cell; when
\* the call has ended with the cancellation signal the progress is 0 and the
\* flag is set, and both stay so until the next call of validateData.
C33_NoProgressWriteAfterCancel ==
    /\ [](pc = "cancelled" => (validationProgress = 0 /\ isValidationCancelled))
    /\ [][ /\ (Resume /\ isValidationCancelled)
                => UNCHANGED <<validationProgress, isValidationCancelled>>
           /\ (pc = "cancelled" /\ ~Entry)
                => UNCHANGED <<validationProgress, isValidationCancelled>> ]_vars

\* C33 witness: the signal raised after two or more completed steps, with
\* the progress at 0
C33_Witness ==
    /\ pc = "cancelled"
    /\ completedSteps >= 2
    /\ validationProgress = 0
    /\ isValidationCancelled

\* the file fails one of the three structural checks of validateExcelFile
StructuralFailure ==
    \/ ~fileData.readable
    \/ Len(fileData.rows) = 0
    \/ HeaderMismatch

\* C34: a call of validateExcelFile on a file that is unreadable, has no data
\* row or has a rejected header leaves validationProgress and
\* isValidationCancelled as they were before the call; on any other file the
\* call enters validateData, which clears the flag and leaves the progress at
\* that of the first completed step.
C34_StructuralFailureKeepsCells ==
    [][ validateExcelFile =>
          IF StructuralFailure
          THEN /\ fileResult' \in {ERR_FORMAT, ERR_NO_DATA, ERR_HEADER}
               /\ UNCHANGED <<validationProgress, isValidationCancelled>>
          ELSE /\ fileResult' = "validating"
               /\ ~isValidationCancelled'
               /\ validationProgress' = getProgress(1, totalSteps(fileData.rows, unique)) ]_vars

\* C34 witness: a structural failure on a handle whose earlier run of
\* validateData was cancelled after a step, the flag still set
C34_Witness ==
    /\ fileResult \in {ERR_FORMAT, ERR_NO_DATA, ERR_HEADER}
    /\ pc = "cancelled"
    /\ completedSteps >= 1
    /\ isValidationCancelled
    /\ validationProgress = 0

\* no two constraint groups of the call share a group key
DistinctGroupKeys ==
    \A g, h \in 1..Len(unique) : GroupKey(unique[g]) = GroupKey(unique[h]) => g = h

\* the rows of these row numbers have equal normalized values in every
\* column of the group
SameTuples(rowNumbers, cols) ==
    \A p, q \in 1..Len(rowNumbers) :
        NormalizedTuple(data[rowNumbers[p] - ROW_NUMBER_OFFSET + 1], cols)
            = NormalizedTuple(data[rowNumbers[q] - ROW_NUMBER_OFFSET + 1], cols)

\* C35 (as stated): in a call whose groups have distinct group keys, the
\* rows recorded under one composite key of a group have equal normalized
\* values column by column, and so have the rows that a DUPLICATE error of
\* the group lists.
C35_Original ==
    DistinctGroupKeys =>
        \A g \in 1..Len(unique) :
            /\ HasKey(uniqueValues, GroupKey(unique[g])) =>
                  LET valueMap == GetKey(uniqueValues, GroupKey(unique[g]))
                  IN  \A m \in 1..Len(valueMap) : SameTuples(valueMap[m].val, unique[g])
            /\ pc = "returned" =>
                  \A j \in 1..Len(errors) :
                      (IsDuplicateError(errors[j]) /\ errors[j].column = GroupKey(unique[g]))
                          => SameTuples(errors[j].message.rows, unique[g])

====
